---- MODULE Spec2Model ----
(***************************************************************************)
(* A model of the curriculum meta-environment (menv/menv.py) and of the    *)
(* vocabulary and observation preprocessor (utils/format.py).              *)
(*                                                                         *)
(* Python's None is the empty tuple and a present value v is <<v>>, so an  *)
(* optional field always holds a tuple.  A probability vector is a record  *)
(* [den, w]: entry i is the rational w[i] / den, which keeps "sums to 1"   *)
(* and "is 1/N" exact.  Python index i of a list is position i + 1 here.   *)
(***************************************************************************)
EXTENDS Integers, Sequences, FiniteSets, TLC

\* ----------------------------------------------------------------- bounds
MaxEnvs == 3
MaxReward == 1
MaxReturn == 3

\* ------------------------------------------------------------ small helpers
None == <<>>
Some(v) == <<v>>
Val(o) == o[1]

RECURSIVE SumSeq(_)
SumSeq(s) == IF s = <<>> THEN 0 ELSE s[1] + SumSeq(Tail(s))

Count(s, x) == Cardinality({i \in 1..Len(s) : s[i] = x})

\* The first position of x in s, 0 when absent.
IndexOf(s, x) == IF \E i \in 1..Len(s) : s[i] = x
                 THEN CHOOSE i \in 1..Len(s) : s[i] = x /\ \A j \in 1..(i - 1) : s[j] # x
                 ELSE 0

\* ------------------------------------------------------ the meta-environment
VARIABLES
  compute_lp,       \* TRUE iff a compute_lp callback was supplied
  compute_distrib,  \* TRUE iff a compute_distrib callback was supplied
  envs,             \* list(G.nodes): the fixed collection of sub-environments
  num_envs,
  env,              \* the active sub-environment, None before the first reset
  env_id,           \* its index, None before the first reset
  returnn,          \* the episode accumulator, None before the first reset
  lps,              \* the last learning-progress value, None before any update
  distrib,          \* the sampling distribution
  phase,            \* "ctor": __init__ has run to line 18; "live": constructed;
                    \* "dead": __init__ raised, no object exists
  hist,             \* what the last call did (history, not program state)
  epRewards         \* sum of the rewards returned by step() since the last
                    \* call of reset() (history, not program state)

menvVars == <<compute_lp, compute_distrib, envs, num_envs, env, env_id,
              returnn, lps, distrib, phase, hist, epRewards>>

\* self.menv_logger is set to None by __init__ and assigned nowhere else.
menv_logger == None

\* The identity of the sub-environment stored at Python index i.
Node(i) == 10 + i

\* numpy.ones((n)) / n
Uniform(n) == [den |-> n, w |-> [i \in 1..n |-> 1]]

\* Probability 1 at Python index k of n entries.
PointMass(n, k) == [den |-> 1, w |-> [i \in 1..n |-> IF i = k + 1 THEN 1 ELSE 0]]

\* What a caller-supplied compute_distrib may return for n sub-environments:
\* well-formed vectors (uniform, point masses, a skewed one) and malformed
\* ones (one entry short, one entry long, not normalised, all zero, a negative
\* entry).  The code takes whatever comes back.
DistribValues(n) ==
  {Uniform(n)}
    \cup {PointMass(n, k) : k \in 0..(n - 1)}
    \cup {[den |-> n + 1, w |-> [i \in 1..n |-> IF i = 1 THEN 2 ELSE 1]]}
    \cup {Uniform(n + 1)}
    \cup (IF n >= 1 THEN {Uniform(n - 1)} ELSE {})
    \cup {[den |-> 1, w |-> [i \in 1..n |-> 1]]}
    \cup {[den |-> 1, w |-> [i \in 1..n |-> 0]]}
    \cup (IF n >= 2
          THEN {[den |-> 1, w |-> [i \in 1..n |-> IF i = 1 THEN 2 ELSE IF i = 2 THEN 0 - 1 ELSE 0]]}
          ELSE {})

\* What a caller-supplied compute_lp may return.
LpValues == {0, 1}

SumsToOne(d) == d.den > 0 /\ SumSeq(d.w) = d.den

IsUniform(d, n) == d.den > 0 /\ Len(d.w) = n /\ \A i \in 1..n : d.w[i] * n = d.den

\* numpy.random.choice(range(n), p=d) raises ValueError unless range(n) is
\* non-empty and d has n non-negative entries summing to 1.
ChoiceAccepts(n, d) ==
  /\ n >= 1
  /\ Len(d.w) = n
  /\ \A i \in 1..n : d.w[i] >= 0
  /\ SumsToOne(d)

\* The indices numpy.random.choice(range(n), p=d) can return.
ChoiceDraws(n, d) == {k \in 0..(n - 1) : d.w[k + 1] > 0}

\* The record of a call: what it was, how it ended, the order of what it did,
\* the arguments it handed to the callbacks and to numpy, and what it returned.
NoCall == [op |-> "none", outcome |-> "ok", trace |-> <<>>, first |-> FALSE,
           epSum |-> 0, prevEnvId |-> None, returnBefore |-> None,
           lpEnvId |-> None, lpReturn |-> None, distArg |-> None,
           distRet |-> Uniform(0), drawFrom |-> Uniform(0), drawn |-> None,
           called |-> None, result |-> None, attr |-> ""]

\* The state __init__ builds in lines 7-18, before it calls self.reset().
MEnvInit ==
  /\ compute_lp \in BOOLEAN
  /\ compute_distrib \in BOOLEAN
  /\ num_envs \in 0..MaxEnvs
  /\ envs = [i \in 1..num_envs |-> Node(i - 1)]
  /\ env = None
  /\ env_id = None
  /\ returnn = None
  /\ lps = None
  /\ distrib = Uniform(num_envs)
  /\ phase = "ctor"
  /\ hist = NoCall
  /\ epRewards = 0

\* reset(), lines 34-35: whether the callbacks run.
UpdatesWithoutCallbacks == returnn # None

UpdatesIfEitherCallback == returnn # None /\ (compute_lp \/ compute_distrib)

UpdatesDistrib == returnn # None /\ compute_lp /\ compute_distrib

\* reset(), line 36: the (index, return) pair handed to compute_lp; drawn is
\* the index _select_env draws later in the same call (line 43).
EnvIdDrawnFirst(id_before, ret_before, drawn) == <<Some(drawn), ret_before>>

LpArgs(id_before, ret_before, drawn) == <<id_before, ret_before>>

\* reset(), line 37: the distribution kept after compute_distrib returned.
KeepsOldDistrib(old, returned) == old

StoredDistrib(old, returned) == returned

\* _select_env(), line 26: the sub-environment at Python index k.
EnvAtFirst(es, k) == es[1]

EnvAt(es, k) == es[k + 1]

\* reset(): lpv is what compute_lp returns, dv what compute_distrib returns,
\* k the index numpy draws, ok whether the sub-environment's reset() returns.
\* Called by __init__ (line 19) in phase "ctor", by the trainer afterwards.
\* The callbacks are taken to return a value (whichever); the exceptions
\* modelled are numpy's and the sub-environment's.
ResetBody(lpv, dv, k, ok) ==
  LET upd == UpdatesDistrib
      lps1 == IF upd THEN Some(lpv) ELSE lps
      distrib1 == IF upd THEN StoredDistrib(distrib, dv) ELSE distrib
      args == LpArgs(env_id, returnn, k)
      t0 == <<"test_returnn">>
      t1 == IF upd THEN t0 \o <<"read_returnn", "compute_lp", "compute_distrib", "store_distrib">>
            ELSE t0
      t2 == IF returnn # None /\ menv_logger # None THEN Append(t1, "log") ELSE t1
      t3 == t2 \o <<"zero_returnn", "choice">>
      accepted == ChoiceAccepts(num_envs, distrib1)
      h1 == [NoCall EXCEPT !.op = "reset", !.epSum = epRewards,
                           !.first = (phase = "ctor"),
                           !.prevEnvId = env_id, !.returnBefore = returnn,
                           !.lpEnvId = IF upd THEN args[1] ELSE None,
                           !.lpReturn = IF upd THEN args[2] ELSE None,
                           !.distArg = IF upd THEN lps1 ELSE None,
                           !.distRet = IF upd THEN dv ELSE Uniform(0),
                           !.drawFrom = distrib1]
  IN
  /\ lps' = lps1
  /\ distrib' = distrib1
  /\ returnn' = Some(0)
  /\ epRewards' = 0
  /\ IF ~accepted
     THEN \* numpy.random.choice raises inside _select_env
          /\ k = 0 /\ ok
          /\ env_id' = env_id
          /\ env' = env
          /\ hist' = [h1 EXCEPT !.outcome = "ValueError", !.trace = t3]
          /\ phase' = IF phase = "ctor" THEN "dead" ELSE phase
     ELSE /\ k \in ChoiceDraws(num_envs, distrib1)
          /\ env_id' = Some(k)
          /\ env' = Some(EnvAt(envs, k))
          /\ hist' = [h1 EXCEPT !.outcome = IF ok THEN "ok" ELSE "SubEnvError",
                                !.trace = t3 \o <<"select", "env.reset">>,
                                !.drawn = Some(k),
                                !.called = Some(EnvAt(envs, k)),
                                !.result = IF ok THEN Some(EnvAt(envs, k)) ELSE None]
          /\ phase' = IF phase = "ctor" THEN (IF ok THEN "live" ELSE "dead") ELSE phase
  /\ UNCHANGED <<compute_lp, compute_distrib, envs, num_envs>>

Reset ==
  /\ phase \in {"ctor", "live"}
  /\ \E lpv \in LpValues, dv \in DistribValues(num_envs), k \in 0..MaxEnvs, ok \in BOOLEAN :
       /\ (~UpdatesDistrib => lpv = 0 /\ dv = Uniform(num_envs))
       /\ ResetBody(lpv, dv, k, ok)

\* step(), line 30: the accumulator after a reward.
AccumulateAddsTwice(acc, reward) == acc + reward + reward

AccumulateOverwrites(acc, reward) == reward

Accumulate(acc, reward) == acc + reward

\* step(), lines 29-30: the accumulator after the sub-environment's step()
\* returned reward (ok) or raised (line 30 is then never reached).
AddsRewardEvenIfRaised(acc, reward, ok) == Some(Accumulate(Val(acc), reward))

StepReturnn(acc, reward, ok) == IF ok THEN Some(Accumulate(Val(acc), reward)) ELSE acc

\* step(action) on a constructed meta-environment: the active sub-environment's
\* step() returns (obs, reward, done, info) or raises; reward is then the
\* reward the failed step would have carried.
StepBody(reward, done, ok) ==
  LET h1 == [NoCall EXCEPT !.op = "step", !.epSum = epRewards, !.trace = <<"env.step">>,
                           !.prevEnvId = env_id, !.returnBefore = returnn,
                           !.called = env]
  IN
  /\ returnn' = StepReturnn(returnn, reward, ok)
  /\ IF ok
     THEN /\ epRewards' = epRewards + reward
          /\ hist' = [h1 EXCEPT !.result = Some([obs |-> Val(env), reward |-> reward, done |-> done])]
     ELSE /\ epRewards' = epRewards
          /\ hist' = [h1 EXCEPT !.outcome = "SubEnvError"]

Step ==
  /\ phase = "live"
  /\ \E reward \in 0..MaxReward, done \in BOOLEAN, ok \in BOOLEAN :
       /\ (~ok => ~done)
       /\ epRewards + reward <= MaxReturn
       /\ StepBody(reward, done, ok)
  /\ UNCHANGED <<compute_lp, compute_distrib, envs, num_envs, env, env_id, lps, distrib, phase>>

\* step(action) on the object as lines 7-18 leave it (no reset() has run; only
\* code that runs while __init__ is at line 19 can see the object like this):
\* self.env is None, so line 29 raises AttributeError before anything is
\* called or assigned.
StepToleratesNone(e) == FALSE

StepRaisesOnNone(e) == e = None

StepBeforeReset ==
  /\ phase = "ctor"
  /\ hist' = IF StepRaisesOnNone(env)
             THEN [NoCall EXCEPT !.op = "step", !.outcome = "AttributeError"]
             ELSE [NoCall EXCEPT !.op = "step", !.trace = <<"env.step">>,
                                 !.result = Some([obs |-> 0, reward |-> 0, done |-> FALSE])]
  /\ UNCHANGED <<compute_lp, compute_distrib, envs, num_envs, env, env_id,
                 returnn, lps, distrib, phase, epRewards>>

\* The attributes MEnv does not define itself, and the value sub-environment
\* e holds for one of them: each sub-environment has its own.
ForwardedAttrs == {"observation_space", "action_space"}

AttrOf(e, key) == <<e, key>>

\* __getattr__(key), line 22: getattr(self.env, key); es is self.envs.
AttrOfFirstEnv(e, es, key) == AttrOf(es[1], key)

GetAttrValue(e, es, key) == AttrOf(Val(e), key)

\* An access menv.<key> for a key MEnv does not define, on a constructed
\* meta-environment.  The record keeps the index that was active before the
\* reset() this access follows, if it follows one.
GetAttr ==
  /\ phase = "live"
  /\ \E key \in ForwardedAttrs :
       hist' = [NoCall EXCEPT !.op = "getattr", !.attr = key, !.trace = <<"getattr">>,
                              !.epSum = epRewards, !.returnBefore = returnn,
                              !.prevEnvId = IF hist.op = "reset" THEN hist.prevEnvId ELSE env_id,
                              !.called = env,
                              !.result = Some(GetAttrValue(env, envs, key))]
  /\ UNCHANGED <<compute_lp, compute_distrib, envs, num_envs, env, env_id,
                 returnn, lps, distrib, phase, epRewards>>

\* ------------------------------------------- vocabulary and preprocessor
\* A string is the tuple of its characters, a token a non-empty tuple of
\* lower-case letters.  A dict is the tuple of its <<key, value>> items in
\* insertion order, as Python keeps them.
VARIABLES
  vocab,   \* Vocabulary.vocab, the token -> id dict
  file,    \* the text of <run_dir>/vocab.json (its members in order), None
           \* when the file does not exist
  saved,   \* the dict the last save() of this run wrote (history)
  vhist    \* what the last call did (history)

vocabVars == <<vocab, file, saved, vhist>>

max_size == 100

\* How far below max_size a vocabulary file found at start-up may be.
MaxHeadroom == 2
\* How many observations a batch may hold.
MaxBatch == 2

Letters == <<"a", "b", "c", "d", "e", "f", "g", "h", "i", "j", "k", "l", "m",
             "n", "o", "p", "q", "r", "s", "t", "u", "v", "w", "x", "y", "z">>

Capitals == <<"A", "B", "C", "D", "E", "F", "G", "H", "I", "J", "K", "L", "M",
              "N", "O", "P", "Q", "R", "S", "T", "U", "V", "W", "X", "Y", "Z">>

InSeq(s, x) == \E i \in 1..Len(s) : s[i] = x

\* str.lower() on one character.
Lower(c) == IF InSeq(Capitals, c) THEN Letters[IndexOf(Capitals, c)] ELSE c

\* The character class [a-z].
IsLetter(c) == InSeq(Letters, c)

\* re.findall("([a-z]+)", text): the maximal runs of letters, left to right;
\* run is the run being read.
RECURSIVE FindAll(_, _)
FindAll(text, run) ==
  IF text = <<>>
  THEN (IF run = <<>> THEN <<>> ELSE <<run>>)
  ELSE IF IsLetter(text[1])
       THEN FindAll(Tail(text), Append(run, text[1]))
       ELSE (IF run = <<>> THEN <<>> ELSE <<run>>) \o FindAll(Tail(text), <<>>)

\* str.lower() on a string.
LowerAll(text) == [i \in 1..Len(text) |-> Lower(text[i])]

\* __call__, line 75.
Tokenize(mission) == FindAll(LowerAll(mission), <<>>)

\* The mission texts of the observations: "", "Go2UP", "up go, up go".
Missions == {<<>>, <<"G", "o", "2", "U", "P">>,
             <<"u", "p", " ", "g", "o", ",", " ", "u", "p", " ", "g", "o">>}

\* Tokenize on the mission texts, computed once.
TokenTable == [mission \in Missions |-> Tokenize(mission)]

Tokens(mission) == TokenTable[mission]

\* dict: key in d, d[key], len(d) is Len(d), d[key] = value.
Has(d, key) == \E i \in 1..Len(d) : d[i][1] = key

Get(d, key) == d[CHOOSE i \in 1..Len(d) : d[i][1] = key][2]

Set(d, key, value) ==
  IF Has(d, key)
  THEN [i \in 1..Len(d) |-> IF d[i][1] = key THEN <<key, value>> ELSE d[i]]
  ELSE Append(d, <<key, value>>)

\* The k-th of the two-letter words aa, ab, ..., az, ba, ...
Word(k) == <<Letters[((k - 1) \div Len(Letters)) + 1], Letters[((k - 1) % Len(Letters)) + 1]>>

\* The dict an earlier run reaches by looking up n words, and saves.
Prefilled(n) == [k \in 1..n |-> <<Word(k), k>>]

\* json.dump(d, f): the members of the object, in the dict's order.
JsonDumpDropsLast(d) == [i \in 1..(Len(d) - 1) |-> [key |-> d[i][1], value |-> d[i][2]]]

JsonDump(d) == [i \in 1..Len(d) |-> [key |-> d[i][1], value |-> d[i][2]]]

\* dict.update: d with the items of e assigned into it in e's order (e holds
\* no key twice).
Update(d, e) ==
  [i \in 1..Len(d) |-> IF Has(e, d[i][1]) THEN <<d[i][1], Get(e, d[i][1])>> ELSE d[i]]
    \o SelectSeq(e, LAMBDA item : ~Has(d, item[1]))

\* json.load(f): a dict built member by member, a repeated key keeping its
\* place and taking its last value.  Assigning the members one after the
\* other is assigning the first half, then the second half.
RECURSIVE JsonLoad(_)
JsonLoad(members) ==
  IF members = <<>> THEN <<>>
  ELSE IF Len(members) = 1 THEN <<<<members[1].key, members[1].value>>>>
  ELSE LET half == Len(members) \div 2
       IN Update(JsonLoad(SubSeq(members, 1, half)),
                 JsonLoad(SubSeq(members, half + 1, Len(members))))

\* Vocabulary.__init__, lines 20-22: the dict after construction.
LoadedVocab(f) == IF f # None THEN JsonLoad(Val(f)) ELSE <<>>

\* __getitem__, line 26.
FullOnlyAbove(d) == Len(d) > max_size

Full(d) == Len(d) >= max_size

\* __getitem__, lines 24-29: the dict afterwards, and the id returned or None
\* when ValueError is raised.
GetItemOfCountsFromZero(d, token) ==
  IF ~Has(d, token)
  THEN IF Full(d)
       THEN [vocab |-> d, result |-> None]
       ELSE LET d1 == Set(d, token, Len(d))
            IN [vocab |-> d1, result |-> Some(Get(d1, token))]
  ELSE [vocab |-> d, result |-> Some(Get(d, token))]

GetItemOf(d, token) ==
  IF ~Has(d, token)
  THEN IF Full(d)
       THEN [vocab |-> d, result |-> None]
       ELSE LET d1 == Set(d, token, Len(d) + 1)
            IN [vocab |-> d1, result |-> Some(Get(d1, token))]
  ELSE [vocab |-> d, result |-> Some(Get(d, token))]

\* __call__, line 76: the ids of one mission's tokens, looked up left to
\* right; ids is None once a lookup has raised.
RECURSIVE IdsOf(_, _, _)
IdsOf(d, tokens, ids) ==
  IF tokens = <<>> THEN [vocab |-> d, ids |-> Some(ids)]
  ELSE LET r == GetItemOf(d, tokens[1])
       IN IF r.result = None THEN [vocab |-> r.vocab, ids |-> None]
          ELSE IdsOf(r.vocab, Tail(tokens), Append(ids, Val(r.result)))

\* __call__, lines 74-78: raw_instrs, None once a lookup has raised.
RECURSIVE RawInstrs(_, _, _)
RawInstrs(d, obss, raw) ==
  IF obss = <<>> THEN [vocab |-> d, raw |-> Some(raw)]
  ELSE LET r == IdsOf(d, Tokens(obss[1]), <<>>)
       IN IF r.ids = None THEN [vocab |-> r.vocab, raw |-> None]
          ELSE RawInstrs(r.vocab, Tail(obss), Append(raw, Val(r.ids)))

\* __call__, lines 72 and 78: max_instr_len.
RECURSIVE MaxInstrLen(_)
MaxInstrLen(raw) ==
  IF raw = <<>> THEN 0
  ELSE LET m == MaxInstrLen(Tail(raw))
       IN IF Len(raw[1]) > m THEN Len(raw[1]) ELSE m

\* __call__, lines 80-83: row i of the zero matrix after instrs[i, :len(instr)] = instr.
RowKeepsZeros(instr, width) == [j \in 1..width |-> 0]

Row(instr, width) == [j \in 1..width |-> IF j <= Len(instr) THEN instr[j] ELSE 0]

\* __call__, lines 80-85: the instruction tensor, its shape and its rows.
Instrs(raw) ==
  LET width == MaxInstrLen(raw)
  IN [shape |-> <<Len(raw), width>>, rows |-> [i \in 1..Len(raw) |-> Row(raw[i], width)]]

NoInstrs == [shape |-> <<0, 0>>, rows |-> <<>>]

\* The record of a call on the vocabulary or the preprocessor.
NoVCall == [op |-> "none", outcome |-> "ok", prevOutcome |-> "ok", token |-> <<>>,
            before |-> <<>>, result |-> None, obss |-> <<>>, instrs |-> NoInstrs]

\* The tokens the trainer looks up directly.
LookupTokens == {<<"g", "o">>, <<"u", "p">>, Word(1)}

Batches == UNION {[1..n -> Missions] : n \in 0..MaxBatch}

\* The vocabulary files a run directory may hold at start-up: none, or what
\* an earlier run saved.
StartFiles ==
  {None, Some(JsonDump(Prefilled(0)))}
    \cup {Some(JsonDump(Prefilled(max_size - h))) : h \in 0..MaxHeadroom}

\* Vocabulary(run_dir), lines 17-22, as ObssPreprocessor.__init__ calls it.
VocabularyInit ==
  /\ file \in StartFiles
  /\ vocab = LoadedVocab(file)
  /\ saved = None
  /\ vhist = NoVCall

\* vocab[token]
GetItem ==
  \E token \in LookupTokens :
    LET r == GetItemOf(vocab, token)
    IN /\ vocab' = r.vocab
       /\ vhist' = [NoVCall EXCEPT !.op = "getitem", !.token = token, !.before = vocab,
                                   !.prevOutcome = vhist.outcome,
                                   !.outcome = IF r.result = None THEN "ValueError" ELSE "ok",
                                   !.result = r.result]
       /\ UNCHANGED <<file, saved>>

\* save(), lines 31-33.
Save ==
  /\ file' = Some(JsonDump(vocab))
  /\ saved' = Some(vocab)
  /\ vhist' = [NoVCall EXCEPT !.op = "save", !.before = vocab, !.prevOutcome = vhist.outcome]
  /\ UNCHANGED vocab

\* A new Vocabulary(run_dir) on the same run directory, lines 17-22.
NewVocabulary ==
  /\ vocab' = LoadedVocab(file)
  /\ saved' = saved
  /\ vhist' = [NoVCall EXCEPT !.op = "init", !.before = vocab, !.prevOutcome = vhist.outcome]
  /\ UNCHANGED file

\* ObssPreprocessor.__call__(obss), lines 70-87.
Preprocess ==
  \E obss \in Batches :
    LET r == RawInstrs(vocab, obss, <<>>)
    IN /\ vocab' = r.vocab
       /\ vhist' = [NoVCall EXCEPT !.op = "call", !.obss = obss, !.before = vocab,
                                   !.prevOutcome = vhist.outcome,
                                   !.outcome = IF r.raw = None THEN "ValueError" ELSE "ok",
                                   !.instrs = IF r.raw = None THEN NoInstrs ELSE Instrs(Val(r.raw))]
       /\ UNCHANGED <<file, saved>>

\* ------------------------------------------------------ log cleaning
\* scripts/compute_stats.py, clean_row: a column of a log is the tuple of its
\* entries, a number n being <<n>> and NaN the empty tuple; the cleaned row
\* holds plain numbers.
VARIABLES
  clean    \* the last call of clean_row: its argument and what it returned

\* How long a column may be, and the largest return in it.
MaxRowLen == 4
MaxValue == 1

NaN == <<>>

\* numpy.isnan(x)
IsNaN(x) == x = NaN

\* clean_row, lines 38-40: prev_val after the entry x.
PrevValResetByNaN(prev_val, x) == IF ~IsNaN(x) THEN Val(x) ELSE 0

NextPrevVal(prev_val, x) == IF ~IsNaN(x) THEN Val(x) ELSE prev_val

\* clean_row, lines 37-40: the entries written from position i on.
RECURSIVE CleanedFrom(_, _)
CleanedFrom(row, prev_val) ==
  IF row = <<>> THEN <<>>
  ELSE LET p == NextPrevVal(prev_val, row[1])
       IN <<p>> \o CleanedFrom(Tail(row), p)

\* clean_row(row), lines 34-41: prev_val starts at 0.
clean_row(row) == CleanedFrom(row, 0)

Rows == UNION {[1..n -> {NaN} \cup {Some(v) : v \in 0..MaxValue}] : n \in 0..MaxRowLen}

NoClean == [called |-> FALSE, row |-> <<>>, cleaned |-> <<>>]

\* No log has been cleaned.
CleanIdle == clean = NoClean

\* clean_df hands a "return/" column to clean_row, lines 43-47.
CleanRow ==
  \E row \in Rows :
    clean' = [called |-> TRUE, row |-> row, cleaned |-> clean_row(row)]

\* --------------------------------------------------------- specifications
vars == <<menvVars, vocabVars, clean>>

\* No vocabulary exists.
VocabIdle ==
  /\ vocab = <<>>
  /\ file = None
  /\ saved = None
  /\ vhist = NoVCall

\* No meta-environment exists.
MEnvIdle ==
  /\ compute_lp = FALSE
  /\ compute_distrib = FALSE
  /\ num_envs = 0
  /\ envs = <<>>
  /\ env = None
  /\ env_id = None
  /\ returnn = None
  /\ lps = None
  /\ distrib = Uniform(0)
  /\ phase = "none"
  /\ hist = NoCall
  /\ epRewards = 0

\* The meta-environment and its trainer.
Init == MEnvInit /\ VocabIdle /\ CleanIdle

Next ==
  \/ Reset /\ UNCHANGED <<vocabVars, clean>>
  \/ Step /\ UNCHANGED <<vocabVars, clean>>
  \/ StepBeforeReset /\ UNCHANGED <<vocabVars, clean>>
  \/ GetAttr /\ UNCHANGED <<vocabVars, clean>>

Spec == Init /\ [][Next]_vars

\* The vocabulary and the observation preprocessor that owns it.
VocabInit == VocabularyInit /\ MEnvIdle /\ CleanIdle

VocabNext ==
  \/ GetItem /\ UNCHANGED <<menvVars, clean>>
  \/ Save /\ UNCHANGED <<menvVars, clean>>
  \/ NewVocabulary /\ UNCHANGED <<menvVars, clean>>
  \/ Preprocess /\ UNCHANGED <<menvVars, clean>>

VocabSpec == VocabInit /\ [][VocabNext]_vars

\* The statistics script cleaning the columns of its logs.
CleanInit == CleanIdle /\ MEnvIdle /\ VocabIdle

CleanNext == CleanRow /\ UNCHANGED <<menvVars, vocabVars>>

CleanSpec == CleanInit /\ [][CleanNext]_vars

\* ------------------------------------------------------------------ claims
Called(name) == Count(hist.trace, name) > 0

Before(a, b) == IndexOf(hist.trace, a) > 0 /\ IndexOf(hist.trace, a) < IndexOf(hist.trace, b)

\* C1: when compute_lp or compute_distrib (or both) was not supplied, the
\* sampling distribution of a meta-environment over N >= 1 sub-environments
\* is the uniform vector, 1/N at each of its N indices, whatever sequence of
\* reset() and step() calls has run.
C1_UniformWithoutCallbacks ==
  (num_envs >= 1 /\ (~compute_lp \/ ~compute_distrib)) => IsUniform(distrib, num_envs)

\* A reset() that ends an episode with rewards, one callback missing.
C1_Witness ==
  /\ compute_lp /\ ~compute_distrib /\ num_envs >= 2
  /\ hist.op = "reset" /\ ~hist.first /\ hist.epSum > 0

C3_ResetOrder ==
  hist.op = "reset" =>
    /\ hist.first => (~Called("compute_lp") /\ ~Called("compute_distrib"))
    /\ (~hist.first /\ compute_lp /\ compute_distrib) =>
         /\ Count(hist.trace, "compute_lp") = 1
         /\ Count(hist.trace, "compute_distrib") = 1
         /\ hist.lpEnvId = hist.prevEnvId
         /\ hist.distArg = lps
         /\ distrib = hist.distRet
         /\ hist.drawFrom = hist.distRet
         /\ Before("compute_lp", "compute_distrib")
         /\ Before("compute_distrib", "store_distrib")
         /\ Before("store_distrib", "zero_returnn")
         /\ Before("zero_returnn", "choice")
         /\ hist.drawn # None =>
              (Val(hist.drawn) \in ChoiceDraws(num_envs, hist.distRet) /\ env_id = hist.drawn)

\* A later reset() that moved from one sub-environment to another under a
\* distribution that is not the uniform one.
C3_Witness ==
  /\ hist.op = "reset" /\ ~hist.first /\ compute_lp /\ compute_distrib
  /\ hist.drawn # None /\ hist.drawn # hist.prevEnvId
  /\ ~IsUniform(distrib, num_envs)

C5_ActiveSelectionValid ==
  phase = "live" =>
    /\ env_id # None /\ env # None
    /\ Val(env_id) \in 0..(num_envs - 1)
    /\ env = Some(envs[Val(env_id) + 1])
    /\ num_envs = 1 => env_id = Some(0)

\* A later reset() selected a sub-environment other than the first one.
C5_Witness ==
  phase = "live" /\ hist.op = "reset" /\ ~hist.first /\ hist.drawn # None
    /\ Val(env_id) > 0 /\ env = Some(Node(Val(env_id)))

\* C6: step() on a meta-environment on which no reset() has run fails: it
\* raises, returns no result, calls no sub-environment and leaves the
\* accumulator as it was (None).
C6_StepBeforeResetFails ==
  (hist.op = "step" /\ phase = "ctor") =>
    /\ hist.outcome = "AttributeError"
    /\ hist.result = None
    /\ hist.trace = <<>>
    /\ returnn = None

\* step() was called before any reset().
C6_Witness == hist.op = "step" /\ phase = "ctor" /\ env = None /\ hist.outcome # "ok"

\* C10: when the active sub-environment's step() or reset() raises, the call
\* ends there: the sub-environment was called once, it was the last thing the
\* call did, the active selection is the one the failing call was made on, and
\* a failed step() leaves the accumulator as it was.
C10_SubEnvErrorPropagates ==
  hist.outcome = "SubEnvError" =>
    /\ hist.result = None
    /\ Count(hist.trace, "env.step") + Count(hist.trace, "env.reset") = 1
    /\ hist.trace[Len(hist.trace)] \in {"env.step", "env.reset"}
    /\ Count(hist.trace, "select") <= 1
    /\ env = hist.called
    /\ hist.op = "step" =>
         /\ Count(hist.trace, "select") = 0
         /\ env_id = hist.prevEnvId
         /\ returnn = hist.returnBefore
         /\ epRewards = hist.epSum

\* A step() raised in the middle of an episode that already had rewards.
C10_Witness ==
  hist.outcome = "SubEnvError" /\ hist.op = "step" /\ hist.epSum > 0 /\ returnn = Some(hist.epSum)

\* A reset() of a constructed meta-environment raised in the sub-environment.
C10_WitnessReset ==
  hist.outcome = "SubEnvError" /\ hist.op = "reset" /\ phase = "live"

\* The token -> id mapping a dict holds.
Mapping(d) == {<<d[i][1], d[i][2]>> : i \in 1..Len(d)}

\* C7: looking up an unseen token assigns it the next integer id while fewer
\* than max_size tokens are stored; with max_size tokens stored it raises,
\* stores nothing and changes no id; looking up a known token returns the id
\* it already had, also after a lookup that raised.
C7_LookupAssignsOrRaises ==
  vhist.op = "getitem" =>
    IF Has(vhist.before, vhist.token)
    THEN /\ vhist.outcome = "ok"
         /\ vhist.result = Some(Get(vhist.before, vhist.token))
         /\ vocab = vhist.before
    ELSE IF Len(vhist.before) < max_size
         THEN /\ vhist.outcome = "ok"
              /\ vhist.result = Some(Len(vhist.before) + 1)
              /\ vocab = Append(vhist.before, <<vhist.token, Len(vhist.before) + 1>>)
         ELSE /\ vhist.outcome = "ValueError"
              /\ vhist.result = None
              /\ vocab = vhist.before

\* The lookup of an unseen token raised with max_size tokens stored, one of
\* them assigned in this run.
C7_Witness ==
  /\ vhist.op = "getitem" /\ vhist.outcome = "ValueError"
  /\ Len(vocab) = max_size /\ Has(vocab, <<"g", "o">>) /\ ~Has(vocab, vhist.token)

\* A known token was looked up right after a lookup that raised.
C7_WitnessRequery ==
  /\ vhist.op = "getitem" /\ vhist.outcome = "ok" /\ vhist.prevOutcome = "ValueError"
  /\ vhist.result = Some(max_size)

\* C8: a Vocabulary constructed on a run directory after save() holds the
\* token -> id mapping that was saved.
C8_SaveLoadRoundTrip ==
  (vhist.op = "init" /\ saved # None) =>
    (Mapping(vocab) = Mapping(Val(saved)) /\ Len(vocab) = Len(Val(saved)))

\* A reload of a saved dict that differs from the dict held before the reload
\* and from every start-up file.
C8_Witness ==
  /\ vhist.op = "init" /\ saved # None
  /\ Len(vocab) >= 2 /\ vocab # vhist.before /\ Some(JsonDump(vocab)) \notin StartFiles

\* C9: for a batch of B observations the instruction output has shape (B, L),
\* L the largest token count of a mission of the batch; row i holds the ids
\* of mission i's tokens in order, then 0 up to position L.
C9_InstrsPadded ==
  (vhist.op = "call" /\ vhist.outcome = "ok") =>
    LET B == Len(vhist.obss)
        ntok(i) == Len(Tokens(vhist.obss[i]))
        out == vhist.instrs
    IN /\ out.shape[1] = B
       /\ \A i \in 1..B : ntok(i) <= out.shape[2]
       /\ B > 0 => \E i \in 1..B : ntok(i) = out.shape[2]
       /\ B = 0 => out.shape[2] = 0
       /\ Len(out.rows) = B
       /\ \A i \in 1..B :
            /\ Len(out.rows[i]) = out.shape[2]
            /\ \A j \in 1..out.shape[2] :
                 out.rows[i][j] = IF j <= ntok(i) THEN Get(vocab, Tokens(vhist.obss[i])[j]) ELSE 0

\* Two missions of 2 and 4 tokens gave shape (2, 4), the first row ending in
\* two zeros after two ids.
C9_Witness ==
  /\ vhist.op = "call" /\ vhist.outcome = "ok"
  /\ Len(vhist.obss) = 2
  /\ Len(Tokens(vhist.obss[1])) = 2 /\ Len(Tokens(vhist.obss[2])) = 4
  /\ vhist.instrs.shape = <<2, 4>>
  /\ vhist.instrs.rows[1][2] > 0 /\ vhist.instrs.rows[1][3] = 0 /\ vhist.instrs.rows[1][4] = 0

\* C11 as stated: every reset() that ends an episode reads the accumulator
\* exactly once, right before it sets it back to 0; the accumulator is None
\* only before the first reset().
C11_ReadOncePerEpisode ==
  /\ (hist.op = "reset" /\ ~hist.first) =>
       /\ Count(hist.trace, "read_returnn") = 1
       /\ IndexOf(hist.trace, "zero_returnn") = IndexOf(hist.trace, "read_returnn") + 1
  /\ (returnn = None) <=> (phase = "ctor")

\* C11 amended: reset() hands the accumulator's value to compute_lp once when
\* it ends an episode and both callbacks are present, and reads it not at all
\* otherwise (line 34 only tests it against None); the value read is the one
\* the accumulator held when reset() was called, the read comes before the
\* accumulator is set to 0 in the same call (the callbacks and the store of
\* the distribution come in between), and the accumulator is None only
\* before the first reset().
C11_ReadOnceWhenCallbacksRun ==
  /\ hist.op = "reset" =>
       /\ Count(hist.trace, "read_returnn")
            = (IF ~hist.first /\ compute_lp /\ compute_distrib THEN 1 ELSE 0)
       /\ Count(hist.trace, "zero_returnn") = 1
       /\ Called("read_returnn") =>
            (Before("read_returnn", "zero_returnn") /\ hist.lpReturn = hist.returnBefore)
       /\ returnn = Some(0)
  /\ (returnn = None) <=> (phase = "ctor")

\* A reset() read the return of an episode with rewards, then zeroed it.
C11_Witness ==
  /\ hist.op = "reset" /\ Called("read_returnn") /\ hist.lpReturn = Some(hist.epSum)
  /\ hist.epSum > 0 /\ returnn = Some(0)

\* C12: an attribute MEnv does not define is resolved against the
\* sub-environment that is active when it is accessed: the access returns that
\* sub-environment's value, and after a reset() that changed the selection it
\* does not return the value of the one active before.
C12_AttrOfActiveEnv ==
  hist.op = "getattr" =>
    /\ hist.result = Some(AttrOf(envs[Val(env_id) + 1], hist.attr))
    /\ (hist.prevEnvId # None /\ hist.prevEnvId # env_id) =>
         hist.result # Some(AttrOf(envs[Val(hist.prevEnvId) + 1], hist.attr))

\* An access right after a reset() that moved to another sub-environment.
C12_Witness ==
  /\ hist.op = "getattr" /\ hist.prevEnvId # None /\ hist.prevEnvId # env_id
  /\ Val(env_id) > 0 /\ hist.result = Some(AttrOf(Node(Val(env_id)), hist.attr))

\* C15: a step() that returns calls the active sub-environment's step once,
\* returns what it returned, adds exactly the returned reward to the
\* accumulator, and leaves the sampling distribution, the active index, the
\* active sub-environment and the stored progress signal as they were, also
\* when done is true.
C15_StepFrame ==
  [][(phase = "live" /\ hist'.op = "step" /\ hist'.outcome = "ok") =>
       /\ hist'.trace = <<"env.step">>
       /\ hist'.called = env
       /\ Val(hist'.result).obs = Val(env)
       /\ returnn' = Some(Val(returnn) + Val(hist'.result).reward)
       /\ distrib' = distrib
       /\ env_id' = env_id
       /\ env' = env
       /\ lps' = lps
       /\ phase' = phase]_vars

\* A step() returned a positive reward with done true, under a distribution
\* and a progress signal that an earlier reset() had updated.
C15_Witness ==
  /\ hist.op = "step" /\ hist.outcome = "ok" /\ phase = "live"
  /\ Val(hist.result).done /\ Val(hist.result).reward > 0
  /\ returnn = Some(Val(hist.returnBefore) + Val(hist.result).reward)
  /\ lps # None /\ ~IsUniform(distrib, num_envs) /\ Val(env_id) > 0

\* C14: after any sequence of lookups, failed ones included, on a vocabulary
\* that started empty (or from what such a vocabulary saved), the dict is a
\* bijection from its tokens onto 1..len(vocab), with len(vocab) <= max_size:
\* no two tokens share an id, no token has id 0, and a lookup or a
\* preprocessor call leaves every token that had an id with that id.
C14_IdsAreBijection ==
  /\ Len(vocab) <= max_size
  /\ {vocab[i][2] : i \in 1..Len(vocab)} = 1..Len(vocab)
  /\ Cardinality({vocab[i][1] : i \in 1..Len(vocab)}) = Len(vocab)
  /\ \A i \in 1..Len(vocab) : vocab[i][2] # 0
  /\ vhist.op \in {"getitem", "call"} =>
       \A i \in 1..Len(vhist.before) :
         Has(vocab, vhist.before[i][1]) /\ Get(vocab, vhist.before[i][1]) = vhist.before[i][2]

\* A lookup or a preprocessor call brought a vocabulary that started empty to
\* three tokens, with the ids 1, 2 and 3.
C14_Witness ==
  /\ vhist.op \in {"getitem", "call"} /\ Len(vocab) = 3 /\ Len(vhist.before) < 3
  /\ {vocab[i][2] : i \in 1..3} = {1, 2, 3}

\* A preprocessor call failed on the capacity after it had added a token.
C14_WitnessFailed ==
  /\ vhist.op = "call" /\ vhist.outcome = "ValueError"
  /\ Len(vocab) = max_size /\ Len(vhist.before) < max_size

\* The position of the last entry before position i that is not NaN, 0 when
\* there is none.
PrevNumber(row, i) ==
  IF \E j \in 1..(i - 1) : ~IsNaN(row[j])
  THEN CHOOSE j \in 1..(i - 1) : ~IsNaN(row[j]) /\ \A k \in (j + 1)..(i - 1) : IsNaN(row[k])
  ELSE 0

====
